---- MODULE Spec2Model ----
(***************************************************************************)
(* LazyList (src/lazy.py): a list that wraps an iterable, evaluates it     *)
(* lazily and caches what it has evaluated.                                *)
(*                                                                         *)
(* One LazyList object is modelled together with the iterable it wraps,    *)
(* the generator objects handed out by __iter__ and a record of the last   *)
(* call made on the object (the call, its arguments, what it returned or   *)
(* raised, and the cache length and iterator presence it started from).    *)
(* Every call runs to completion, so every call is one action.             *)
(*                                                                         *)
(* The class serves Python 2 and 3 (__nonzero__ = __bool__).  What a       *)
(* StopIteration that leaves the generator of __iter__ becomes differs     *)
(* between interpreters: the end of the generator before PEP 479, a        *)
(* RuntimeError since (Python 3.7).  pep479 is chosen in Init and covers   *)
(* both.                                                                   *)
(***************************************************************************)
EXTENDS Integers, Sequences, FiniteSets, TLC

\* ---------------------------------------------------------------- bounds
\* longest finite iterable that is wrapped
MaxN == 2
\* scalar indices and slice bounds passed by the caller lie in -MaxIdx .. MaxIdx
MaxIdx == 3

\* sys.maxsize (its value on a 32 bit build; no iterable of the model is as long)
maxsize == 2147483647

\* the generator objects obtained from __iter__
Cursors == { 1, 2 }

\* the elements the iterables produce
Values == { 0, 1 }

\* Python's None, and an optional integer <<i>>
None == << >>
Some(i) == << i >>

VARIABLES
    source,         \* the wrapped iterable: [items, inf]; inf: items repeat forever
    pep479,         \* the interpreter turns StopIteration inside a generator into RuntimeError
    expanded,       \* self._expanded
    iterator,       \* self._iterator: None, or <<p>>: an iterator that has produced p elements
    expanded_len,   \* self._expanded_len
    cursors,        \* the generator objects returned by __iter__: [st, index, yielded],
                    \* yielded counting the values the generator has produced
    lastOp          \* the last call and its outcome

vars == << source, pep479, expanded, iterator, expanded_len, cursors, lastOp >>

\* ------------------------------------------------------- the wrapped iterable
RECURSIVE SeqsUpTo(_)
SeqsUpTo(n) ==
    IF n = 0 THEN { << >> }
    ELSE LET shorter == SeqsUpTo(n - 1)
         IN shorter \cup { Append(s, v) : s \in { t \in shorter : Len(t) = n - 1 }, v \in Values }

\* the periods of the endless iterables (itertools.cycle of each)
Periods == { << 0 >>, << 1, 0 >>, << 0, 0, 1 >> }

Sources ==
    { [items |-> s, inf |-> FALSE] : s \in SeqsUpTo(MaxN) }
    \cup { [items |-> s, inf |-> TRUE] : s \in Periods }

\* the element the iterable produces at position p (0-based), if it has one
HasElem(src, p) == src.inf \/ p < Len(src.items)
Elem(src, p) == IF src.inf THEN src.items[(p % Len(src.items)) + 1] ELSE src.items[p + 1]

\* ------------------------------------------------------- the object's state
\* The fields of self, and the exception (if any) and value a call ends with.
Self == [expanded |-> expanded, iterator |-> iterator, expanded_len |-> expanded_len,
         exc |-> "none", ret |-> None]

Raise(st, e) == [st EXCEPT !.exc = e, !.ret = None]
Return(st, v) == [st EXCEPT !.exc = "none", !.ret = v]

\* list.__getitem__ with an integer: negative indices count from the end
ListIndex(L, i) ==
    LET j == IF i < 0 THEN i + Len(L) ELSE i
    IN IF j < 0 \/ j >= Len(L) THEN [exc |-> "IndexError", ret |-> None]
       ELSE [exc |-> "none", ret |-> Some(L[j + 1])]

\* list.__getitem__ with a slice object (CPython's PySlice_Unpack and
\* PySlice_AdjustIndices): absent bounds and bounds outside the list are
\* clamped, negative bounds count from the end, step 0 raises ValueError
SliceStep(sl) == IF sl.step = None THEN 1 ELSE sl.step[1]

AdjustIndex(bound, len, step, absent) ==
    IF bound = None THEN absent
    ELSE LET b == bound[1]
         IN IF b < 0
            THEN IF b + len < 0 THEN (IF step < 0 THEN 0 - 1 ELSE 0) ELSE b + len
            ELSE IF b >= len THEN (IF step < 0 THEN len - 1 ELSE len) ELSE b

ListSlice(L, sl) ==
    LET step == SliceStep(sl)
        len == Len(L)
        start == AdjustIndex(sl.start, len, step, IF step < 0 THEN len - 1 ELSE 0)
        stop == AdjustIndex(sl.stop, len, step, IF step < 0 THEN 0 - 1 ELSE len)
        n == IF step < 0
             THEN IF stop < start THEN ((start - stop - 1) \div (0 - step)) + 1 ELSE 0
             ELSE IF start < stop THEN ((stop - start - 1) \div step) + 1 ELSE 0
    IN IF step = 0 THEN [exc |-> "ValueError", ret |-> None]
       ELSE [exc |-> "none", ret |-> [k \in 1 .. n |-> L[start + (k - 1) * step + 1]]]

\* expand_to_index: pull until the cache is longer than desired_index.
\* next(None) raises TypeError; an exhausted iterator raises StopIteration, which
\* is re-raised after the iterator is dropped; an endless iterable asked for
\* sys.maxsize elements never returns.
RECURSIVE expand_to_index_over(_, _)
expand_to_index_over(st, desired_index) ==
    IF ~(st.expanded_len - 1 <= desired_index) THEN Return(st, None)
    ELSE IF st.iterator = None THEN Raise(st, "TypeError")
    ELSE IF source.inf /\ desired_index = maxsize THEN Raise(st, "diverge")
    ELSE IF ~HasElem(source, st.iterator[1])
         THEN Raise([st EXCEPT !.iterator = None], "StopIteration")
    ELSE LET next_val == Elem(source, st.iterator[1])
         IN expand_to_index_over([st EXCEPT !.iterator = Some(st.iterator[1] + 1),
                                            !.expanded = Append(st.expanded, next_val),
                                            !.expanded_len = st.expanded_len + 1],
                                 desired_index)

\* (variants of expand_to_index: the counter advanced before the pull; the
\* loop body run once before the test)
RECURSIVE expand_to_index_count(_, _)
expand_to_index_count(st, desired_index) ==
    IF ~(st.expanded_len <= desired_index) THEN Return(st, None)
    ELSE IF st.iterator = None THEN Raise(st, "TypeError")
    ELSE IF source.inf /\ desired_index = maxsize THEN Raise(st, "diverge")
    ELSE IF ~HasElem(source, st.iterator[1])
         THEN Raise([st EXCEPT !.iterator = None, !.expanded_len = st.expanded_len + 1],
                    "StopIteration")
    ELSE LET next_val == Elem(source, st.iterator[1])
         IN expand_to_index_count([st EXCEPT !.iterator = Some(st.iterator[1] + 1),
                                             !.expanded = Append(st.expanded, next_val),
                                             !.expanded_len = st.expanded_len + 1],
                                  desired_index)

RECURSIVE expand_to_index_prepend(_, _)
expand_to_index_prepend(st, desired_index) ==
    IF ~(st.expanded_len <= desired_index) THEN Return(st, None)
    ELSE IF st.iterator = None THEN Raise(st, "TypeError")
    ELSE IF source.inf /\ desired_index = maxsize THEN Raise(st, "diverge")
    ELSE IF ~HasElem(source, st.iterator[1])
         THEN Raise([st EXCEPT !.iterator = None], "StopIteration")
    ELSE LET next_val == Elem(source, st.iterator[1])
         IN expand_to_index_prepend([st EXCEPT !.iterator = Some(st.iterator[1] + 1),
                                               !.expanded = << next_val >> \o st.expanded,
                                               !.expanded_len = st.expanded_len + 1],
                                    desired_index)

RECURSIVE expand_to_index(_, _)
expand_to_index(st, desired_index) ==
    IF ~(st.expanded_len <= desired_index) THEN Return(st, None)
    ELSE IF st.iterator = None THEN Raise(st, "TypeError")
    ELSE IF source.inf /\ desired_index = maxsize THEN Raise(st, "diverge")
    ELSE IF ~HasElem(source, st.iterator[1])
         THEN Raise([st EXCEPT !.iterator = None], "StopIteration")
    ELSE LET next_val == Elem(source, st.iterator[1])
         IN expand_to_index([st EXCEPT !.iterator = Some(st.iterator[1] + 1),
                                       !.expanded = Append(st.expanded, next_val),
                                       !.expanded_len = st.expanded_len + 1],
                            desired_index)

\* _get with an integer index
get_index_always(st, desired_index) ==
    LET e == IF st.iterator # None THEN expand_to_index(st, st.expanded_len) ELSE st
    IN IF e.exc # "none" THEN e
       ELSE LET r == ListIndex(e.expanded, desired_index)
            IN [e EXCEPT !.exc = r.exc, !.ret = r.ret]

get_index(st, desired_index) ==
    LET e == IF st.iterator # None THEN expand_to_index(st, desired_index) ELSE st
    IN IF e.exc # "none" THEN e
       ELSE LET r == ListIndex(e.expanded, desired_index)
            IN [e EXCEPT !.exc = r.exc, !.ret = r.ret]

\* __getitem__ with an integer index: StopIteration becomes IndexError
getitem_index_leak(st, desired_index) ==
    get_index(st, desired_index)

getitem_index(st, desired_index) ==
    LET r == get_index(st, desired_index)
    IN IF r.exc = "StopIteration" THEN Raise(r, "IndexError") ELSE r

\* expand_to_slice: "stop or sys.maxsize" is sys.maxsize when stop is absent and
\* when stop is 0; StopIteration from the expansion is swallowed
SliceMax(desired_slice) ==
    IF desired_slice.stop = None \/ desired_slice.stop = Some(0) THEN maxsize
    ELSE desired_slice.stop[1]

expand_to_slice_raise(st, desired_slice) ==
    expand_to_index(st, SliceMax(desired_slice))

expand_to_slice_finally(st, desired_slice) ==
    LET e == expand_to_index(st, SliceMax(desired_slice))
    IN IF e.exc = "diverge" THEN e ELSE Return([e EXCEPT !.iterator = None], None)

expand_to_slice(st, desired_slice) ==
    LET e == expand_to_index(st, SliceMax(desired_slice))
    IN IF e.exc \in {"IndexError", "StopIteration"}
       THEN Return([e EXCEPT !.iterator = None], None)
       ELSE e

\* _get with a slice
get_slice(st, desired_slice) ==
    LET e == IF st.iterator # None THEN expand_to_slice(st, desired_slice) ELSE st
    IN IF e.exc # "none" THEN e
       ELSE LET r == ListSlice(e.expanded, desired_slice)
            IN [e EXCEPT !.exc = r.exc, !.ret = r.ret]

\* __getitem__ with a slice
getitem_slice(st, desired_slice) ==
    LET r == get_slice(st, desired_slice)
    IN IF r.exc = "StopIteration" THEN Raise(r, "IndexError") ELSE r

\* One resumption of the generator iterate() whose loop is at index: it yields
\* self._get(index), or it ends. IndexError is caught and StopIteration raised
\* in its place; StopIteration raised by _get itself is not caught. Either way
\* StopIteration leaves the generator's frame: the generator is finished, and
\* the caller of next() sees StopIteration, or RuntimeError under PEP 479.
GeneratorExit == IF pep479 THEN "RuntimeError" ELSE "StopIteration"

iterate(st, index) ==
    LET r == get_index(st, index)
    IN IF r.exc \in {"IndexError", "StopIteration"} THEN Raise(r, GeneratorExit) ELSE r

\* __bool__: the first resumption of a fresh generator decides; the for
\* statement takes StopIteration as the end of the loop
bool(st) ==
    LET r == iterate(st, 0)
    IN IF r.exc = "none" THEN Return(r, TRUE)
       ELSE IF r.exc = "StopIteration" THEN Return(r, FALSE)
       ELSE r

\* value in il: the class defines no __contains__, so the interpreter compares
\* value with what a fresh generator yields, index after index. On an endless
\* iterable whose period does not hold value the search never returns.
contains_all(st, value, index) ==
    LET e == IF st.iterator # None THEN expand_to_index(st, maxsize) ELSE st
    IN IF e.exc = "diverge" THEN e
       ELSE Return(e, \E k \in 1 .. Len(e.expanded) : e.expanded[k] = value)

RECURSIVE contains(_, _, _)
contains(st, value, index) ==
    IF source.inf /\ index >= Len(source.items) THEN Raise(st, "diverge")
    ELSE LET r == iterate(st, index)
         IN IF r.exc = "StopIteration" THEN Return(r, FALSE)
            ELSE IF r.exc # "none" THEN r
            ELSE IF r.ret[1] = value THEN Return(r, TRUE)
            ELSE contains(r, value, index + 1)

\* __len__: StopIteration from the expansion is passed over, nothing else is
len_raise(st) ==
    LET e == expand_to_index(st, maxsize)
    IN IF e.exc = "none" THEN Return(e, Some(Len(e.expanded))) ELSE e

len(st) ==
    LET e == expand_to_index(st, maxsize)
    IN IF e.exc \in {"none", "StopIteration"} THEN Return(e, Some(Len(e.expanded)))
       ELSE e

\* ------------------------------------------------------------------ actions
Running == lastOp.exc # "diverge"

Commit(r, op, arg) ==
    /\ expanded' = r.expanded
    /\ iterator' = r.iterator
    /\ expanded_len' = r.expanded_len
    /\ lastOp' = [op |-> op, arg |-> arg, exc |-> r.exc, ret |-> r.ret,
                  len0 |-> Len(expanded), it0 |-> iterator # None]

Init ==
    /\ source \in Sources
    /\ pep479 \in BOOLEAN
    /\ expanded = << >>
    /\ iterator = Some(0)
    /\ expanded_len = 0
    /\ cursors = [c \in Cursors |-> [st |-> "absent", index |-> 0, yielded |-> 0]]
    /\ lastOp = [op |-> "init", arg |-> None, exc |-> "none", ret |-> None,
                 len0 |-> 0, it0 |-> TRUE]

\* il[i]
GetItem ==
    /\ Running
    /\ \E i \in (0 - MaxIdx) .. MaxIdx :
          Commit(getitem_index(Self, i), "getitem", Some(i))
    /\ UNCHANGED << source, pep479, cursors >>

OptIdx == { None } \cup { Some(i) : i \in (0 - MaxIdx) .. MaxIdx }

\* the slices passed by the caller: every [start:stop], and some with a step
SliceArgs ==
    { [start |-> a, stop |-> b, step |-> None] : a \in OptIdx, b \in OptIdx }
    \cup { [start |-> a, stop |-> b, step |-> c] :
              a \in { None, Some(0 - 1), Some(1) }, b \in { None, Some(0 - 1), Some(1) },
              c \in { Some(0 - 1), Some(2) } }
    \cup { [start |-> None, stop |-> None, step |-> Some(0)] }

\* il[start:stop:step]
GetSlice ==
    /\ Running
    /\ \E sl \in SliceArgs :
          Commit(getitem_slice(Self, sl), "getslice", sl)
    /\ UNCHANGED << source, pep479, cursors >>

\* il.expand_to_index(i), called directly
ExpandToIndex ==
    /\ Running
    /\ \E i \in 0 .. MaxIdx :
          Commit(expand_to_index(Self, i), "expand_to_index", Some(i))
    /\ UNCHANGED << source, pep479, cursors >>

\* len(il)
Length ==
    /\ Running
    /\ Commit(len(Self), "len", None)
    /\ UNCHANGED << source, pep479, cursors >>

\* bool(il)
Bool ==
    /\ Running
    /\ Commit(bool(Self), "bool", None)
    /\ UNCHANGED << source, pep479, cursors >>

\* value in il
Contains ==
    /\ Running
    /\ \E value \in Values :
          Commit(contains(Self, value, 0), "contains", Some(value))
    /\ UNCHANGED << source, pep479, cursors >>

\* iter(il): a new generator object; its body has not started
Iter ==
    /\ Running
    /\ \E c \in Cursors :
          /\ cursors[c].st = "absent"
          /\ \A d \in Cursors : d < c => cursors[d].st # "absent"
          /\ cursors' = [cursors EXCEPT ![c] = [st |-> "created", index |-> 0, yielded |-> 0]]
          /\ lastOp' = [op |-> "iter", arg |-> Some(c), exc |-> "none", ret |-> None,
                        len0 |-> Len(expanded), it0 |-> iterator # None]
    /\ UNCHANGED << source, pep479, expanded, iterator, expanded_len >>

\* next(c) on a generator that is not finished: the body starts at index 0, or
\* resumes after the yield with index += 1, and runs to the next yield or out
AdvanceLive ==
    /\ Running
    /\ \E c \in Cursors :
          /\ cursors[c].st \in {"created", "suspended"}
          /\ LET index == IF cursors[c].st = "created" THEN 0 ELSE cursors[c].index + 1
                 r == iterate(Self, index)
             IN /\ index <= MaxIdx
                /\ Commit(r, "next", Some(c))
                /\ cursors' = [cursors EXCEPT ![c] =
                                  [st |-> IF r.exc = "none" THEN "suspended" ELSE "finished",
                                   index |-> index,
                                   yielded |-> cursors[c].yielded
                                               + (IF r.exc = "none" THEN 1 ELSE 0)]]
    /\ UNCHANGED << source, pep479 >>

\* next(c) on a finished generator raises StopIteration
AdvanceFinished ==
    /\ Running
    /\ \E c \in Cursors :
          /\ cursors[c].st = "finished"
          /\ Commit(Raise(Self, "StopIteration"), "next", Some(c))
    /\ UNCHANGED << source, pep479, cursors >>

\* the calls that involve no generator object of the caller's
Call ==
    \/ GetItem
    \/ GetSlice
    \/ ExpandToIndex
    \/ Length
    \/ Bool
    \/ Contains

\* the calls on the caller's generator objects
Cursor ==
    \/ Iter
    \/ AdvanceLive
    \/ AdvanceFinished

Next ==
    \/ Call
    \/ Cursor

Spec == Init /\ [][Next]_vars

\* The object alone: no generator object is held by the caller.
SpecCalls == Init /\ [][Call]_vars

\* The caller's generator objects, interleaved with every call but slicing. (A
\* slice changes the object as expand_to_index or len do: it expands to an index
\* or to the end.)
NextCursors ==
    \/ GetItem
    \/ ExpandToIndex
    \/ Length
    \/ Bool
    \/ Contains
    \/ Iter
    \/ AdvanceLive
    \/ AdvanceFinished

SpecCursors == Init /\ [][NextCursors]_vars

\* The caller's generator objects alone: the object is reached through them only.
SpecIter == Init /\ [][Cursor]_vars

\* ------------------------------------------------------------------- claims
N == Len(source.items)
Finite == ~source.inf
Max(a, b) == IF a >= b THEN a ELSE b

\* the first k elements of the iterable, and its elements a .. b-1
Prefix(k) == [i \in 1 .. k |-> Elem(source, i - 1)]
Items(a, b) == [i \in 1 .. Max(b - a, 0) |-> Elem(source, a + i - 1)]

\* the last call started from the object as constructed
Fresh == lastOp.len0 = 0 /\ lastOp.it0

\* C1 Laziness of scalar indexing: the constructed object has an empty cache and
\* has pulled nothing; the first il[k], 0 <= k < N, on it returns element k and
\* leaves exactly the elements 0..k in the cache.
C1_Laziness ==
    /\ lastOp.op = "init" =>
          expanded = << >> /\ expanded_len = 0 /\ iterator = Some(0)
    /\ (lastOp.op = "getitem" /\ Fresh /\ lastOp.arg[1] >= 0
          /\ HasElem(source, lastOp.arg[1])) =>
          /\ lastOp.exc = "none"
          /\ lastOp.ret = Some(Elem(source, lastOp.arg[1]))
          /\ expanded = Prefix(lastOp.arg[1] + 1)
          /\ expanded_len = lastOp.arg[1] + 1

C1_Witness ==
    /\ lastOp.op = "getitem" /\ Fresh /\ lastOp.arg = Some(0)
    /\ Finite /\ N = 2
    /\ expanded = << source.items[1] >>
    /\ iterator # None

\* The largest logical index the last call asked for: -1 when it asked for no
\* element, maxsize when it asked for the whole iterable (len, a negative index or
\* bound, an absent stop, a step, or a value the iterable does not hold).
FirstIndex(value) ==
    LET at == { p \in 0 .. (N - 1) : Elem(source, p) = value }
    IN IF at = { } THEN maxsize ELSE CHOOSE p \in at : \A q \in at : p <= q

Requested ==
    CASE lastOp.op = "getitem" ->
            IF lastOp.arg[1] >= 0 THEN lastOp.arg[1] ELSE maxsize
      [] lastOp.op = "expand_to_index" -> lastOp.arg[1]
      [] lastOp.op = "getslice" ->
            LET sl == lastOp.arg
                a == IF sl.start = None THEN 0 ELSE sl.start[1]
            IN IF sl.step # None \/ sl.stop = None \/ a < 0 THEN maxsize
               ELSE IF sl.stop[1] < 0 THEN maxsize
               ELSE IF a < sl.stop[1] THEN sl.stop[1] - 1 ELSE 0 - 1
      [] lastOp.op = "next" -> cursors[lastOp.arg[1]].index
      [] lastOp.op = "bool" -> 0
      [] lastOp.op = "contains" -> FirstIndex(lastOp.arg[1])
      [] lastOp.op = "len" -> maxsize
      [] OTHER -> 0 - 1

\* C2 Memoization: a call that asks for no logical index beyond k leaves at most
\* k+1 elements pulled (or what was pulled before it), each pulled element is the
\* iterable's element at its index, and reading an index returns that element,
\* so that two reads of an index agree.
C2_Memoization ==
    /\ expanded = Prefix(Len(expanded))
    /\ (lastOp.op = "getitem" /\ lastOp.exc = "none" /\ lastOp.arg[1] >= 0) =>
          lastOp.ret = Some(Elem(source, lastOp.arg[1]))
    /\ (Running /\ Requested # maxsize) =>
          Len(expanded) <= Max(lastOp.len0, Requested + 1)

\* C3 Scalar out-of-range: on a finite iterable of N elements il[i], i >= N,
\* raises IndexError (never StopIteration) from every state, and leaves the
\* iterator dropped and the N elements in the cache.
C3_ScalarOutOfRange ==
    (lastOp.op = "getitem" /\ Finite /\ lastOp.arg[1] >= N) =>
        /\ lastOp.exc = "IndexError"
        /\ iterator = None
        /\ expanded = source.items
        /\ expanded_len = N

C3_Witness ==
    /\ lastOp.op = "getitem" /\ Finite /\ N = 2 /\ lastOp.arg = Some(2)
    /\ lastOp.it0 /\ lastOp.len0 = 1
    /\ lastOp.exc = "IndexError" /\ iterator = None /\ Len(expanded) = 2

\* C4 Slice truncation: on a finite iterable of N elements il[a:b], 0 <= a and
\* N < b, returns the elements a .. N-1 from every state, raises nothing and
\* leaves the iterator dropped.
C4_SliceTruncation ==
    (lastOp.op = "getslice" /\ Finite /\ lastOp.arg.step = None
        /\ lastOp.arg.start # None /\ lastOp.arg.stop # None
        /\ lastOp.arg.start[1] >= 0 /\ lastOp.arg.stop[1] > N) =>
        /\ lastOp.exc = "none"
        /\ lastOp.ret = Items(lastOp.arg.start[1], N)
        /\ iterator = None

C4_Witness ==
    /\ lastOp.op = "getslice" /\ Finite /\ N = 2
    /\ lastOp.arg = [start |-> Some(1), stop |-> Some(3), step |-> None]
    /\ lastOp.it0 /\ lastOp.len0 = 0
    /\ lastOp.exc = "none" /\ lastOp.ret = << source.items[2] >>
    /\ iterator = None

\* the largest number of values any one generator object has yielded
MaxYielded ==
    LET ys == { cursors[c].yielded : c \in Cursors }
    IN CHOOSE y \in ys : \A z \in ys : z <= y

\* C5 Multi-cursor independence: however the advances of the generator objects
\* interleave, the j-th value a generator yields is the iterable's element j-1,
\* no position of the iterable is pulled twice (the cache is the iterable's
\* prefix and the iterator stands at its end), and the cache is as long as the
\* largest number of values one generator has yielded.
C5_MultiCursor ==
    /\ expanded = Prefix(Len(expanded))
    /\ iterator # None => iterator[1] = Len(expanded)
    /\ (lastOp.op = "next" /\ lastOp.exc = "none") =>
          lastOp.ret = Some(Elem(source, cursors[lastOp.arg[1]].yielded - 1))
    /\ Len(expanded) = MaxYielded

C5_Witness ==
    /\ lastOp.op = "next" /\ lastOp.arg = Some(1) /\ lastOp.exc = "none"
    /\ cursors[1].yielded = 3 /\ cursors[2].yielded = 1
    /\ lastOp.len0 = 2 /\ Len(expanded) = 3

\* C6 Length drains: on a finite iterable of N elements len(il), called while
\* the iterator is still held, returns N and leaves the N elements in the cache
\* and the iterator dropped; the StopIteration met is not raised.
C6_LengthDrains ==
    (lastOp.op = "len" /\ Finite /\ lastOp.it0) =>
        /\ lastOp.exc = "none"
        /\ lastOp.ret = Some(N)
        /\ expanded = source.items
        /\ iterator = None

C6_Witness ==
    /\ lastOp.op = "len" /\ Finite /\ N = 2 /\ lastOp.it0 /\ lastOp.len0 = 1
    /\ lastOp.ret = Some(2) /\ Len(expanded) = 2 /\ iterator = None

\* C7 Boolean short-circuit: bool(il) returns whether the iterable has an
\* element, raising nothing (also on an empty iterable), and realizes at most
\* one element: exactly one from the constructed object over a non-empty or
\* endless iterable, none when the cache is not empty.
C7_BooleanShortCircuit ==
    lastOp.op = "bool" =>
        /\ lastOp.exc = "none"
        /\ lastOp.ret = HasElem(source, 0)
        /\ Len(expanded) = IF lastOp.len0 > 0 THEN lastOp.len0
                           ELSE IF HasElem(source, 0) THEN 1 ELSE 0

\* C8 Membership found early: when value first occurs in the iterable at index
\* j, value in il is True and leaves the cache max(length before, j+1) long.
C8_MembershipFoundEarly ==
    (lastOp.op = "contains" /\ FirstIndex(lastOp.arg[1]) # maxsize) =>
        /\ lastOp.exc = "none"
        /\ lastOp.ret = TRUE
        /\ Len(expanded) = Max(lastOp.len0, FirstIndex(lastOp.arg[1]) + 1)
        /\ expanded = Prefix(Len(expanded))

C8_Witness ==
    /\ lastOp.op = "contains" /\ lastOp.arg = Some(1) /\ Fresh
    /\ source = [items |-> << 0, 0, 1 >>, inf |-> TRUE]
    /\ lastOp.exc = "none" /\ lastOp.ret = TRUE
    /\ expanded = << 0, 0, 1 >> /\ iterator = Some(3)

\* C9 Negative scalar indices as on a list: on a finite iterable with list L of
\* N elements, il[i] with -N <= i < N returns L[i] from every state.
C9_NegativeIndex ==
    (lastOp.op = "getitem" /\ Finite
        /\ 0 - N <= lastOp.arg[1] /\ lastOp.arg[1] < N) =>
        /\ lastOp.exc = "none"
        /\ lastOp.ret = ListIndex(source.items, lastOp.arg[1]).ret

\* C10 Slices as on a list: on a finite iterable with list L, il[start:stop:step]
\* is L[start:stop:step] from every state.
C10_SliceNative ==
    (lastOp.op = "getslice" /\ Finite) =>
        /\ lastOp.exc = ListSlice(source.items, lastOp.arg).exc
        /\ lastOp.ret = ListSlice(source.items, lastOp.arg).ret

\* C11 Minimal evaluation for slicing: il[a:b], 0 <= a <= b, on the constructed
\* object over an iterable of more than b elements leaves at most b elements in
\* the cache: the element at index b is not pulled.
C11_SliceMinimal ==
    (lastOp.op = "getslice" /\ Fresh /\ lastOp.arg.step = None
        /\ lastOp.arg.start # None /\ lastOp.arg.stop # None
        /\ 0 <= lastOp.arg.start[1] /\ lastOp.arg.start[1] <= lastOp.arg.stop[1]
        /\ HasElem(source, lastOp.arg.stop[1])) =>
        /\ Running
        /\ Len(expanded) <= lastOp.arg.stop[1]

\* C12 Slice expansion bound: a slice with an explicit stop s >= 0 (0 included)
\* expands to index s only: on an iterable of more than s elements the call
\* returns, also on an endless iterable, with the cache max(length before, s+1)
\* long.
C12_SliceExpansionBound ==
    (lastOp.op = "getslice" /\ lastOp.arg.stop # None /\ lastOp.arg.stop[1] >= 0
        /\ HasElem(source, lastOp.arg.stop[1])) =>
        /\ Running
        /\ Len(expanded) = Max(lastOp.len0, lastOp.arg.stop[1] + 1)

\* C13 Exhaustion is terminal: a call made with the iterator already dropped
\* leaves it dropped, is answered from the cache alone, and ends in its normal
\* result (for next(), the end of the iteration included) or in IndexError,
\* never in another error.
C13_ExhaustionTerminal ==
    ~lastOp.it0 =>
        /\ iterator = None
        /\ Len(expanded) = lastOp.len0
        /\ \/ lastOp.exc \in { "none", "IndexError" }
           \/ lastOp.op = "next" /\ lastOp.exc = "StopIteration"

\* C14 len() is repeatable: on a finite iterable of N elements len(il) returns
\* N from every state, also with the iterator already dropped, and a call made
\* with the iterator dropped changes nothing.
C14_LengthRepeatable ==
    (lastOp.op = "len" /\ Finite) =>
        /\ lastOp.exc = "none"
        /\ lastOp.ret = Some(N)
        /\ ~lastOp.it0 => (iterator = None /\ Len(expanded) = lastOp.len0)

\* C15 Cursor termination: over a finite iterable of N elements a generator
\* yields the N elements in order and then ends with StopIteration (the normal
\* end of an iteration), whether its own advance met the end of the iterable or
\* the iterator had been dropped before; over an empty iterable the first
\* advance ends it.
C15_CursorTermination ==
    (lastOp.op = "next" /\ Finite) =>
        LET cur == cursors[lastOp.arg[1]]
        IN IF cur.yielded = N /\ cur.st = "finished"
           THEN lastOp.exc = "StopIteration"
           ELSE /\ lastOp.exc = "none"
                /\ cur.st = "suspended"
                /\ lastOp.ret = Some(source.items[cur.yielded])

\* C16 Prefix invariant: the cache is always the first _expanded_len elements
\* of the iterable in the order produced, and every call leaves it as it was
\* or longer with what it held unchanged: never truncated, reordered or
\* overwritten.
C16_PrefixInvariant ==
    /\ [](expanded = Prefix(expanded_len))
    /\ [][/\ Len(expanded') >= Len(expanded)
          /\ SubSeq(expanded', 1, Len(expanded)) = expanded]_vars

C16_Witness ==
    /\ lastOp.op = "getslice" /\ lastOp.len0 = 1 /\ Len(expanded) = 3
    /\ source = [items |-> << 0, 0, 1 >>, inf |-> TRUE]
    /\ expanded = << 0, 0, 1 >>

\* C17 Counter invariant: after every call, also one that raised (an expansion
\* that met the end of the iterable included), _expanded_len is the length of
\* _expanded.
C17_CounterInvariant ==
    expanded_len = Len(expanded)

C17_Witness ==
    /\ lastOp.op = "expand_to_index" /\ lastOp.exc = "StopIteration"
    /\ lastOp.len0 = 0 /\ N = 2 /\ Len(expanded) = 2 /\ expanded_len = 2

\* C18 Reads inside the cache: il[i] and expand_to_index(i) with
\* 0 <= i < _expanded_len pull nothing and leave the cache, the iterator and
\* the counter as they were (so repeating expand_to_index with the same or a
\* smaller index changes nothing); il[i] returns the cached element.
C18_ReadsInsideCache ==
    [][(lastOp'.op \in { "getitem", "expand_to_index" }
          /\ 0 <= lastOp'.arg[1] /\ lastOp'.arg[1] < expanded_len) =>
          /\ UNCHANGED << expanded, iterator, expanded_len >>
          /\ lastOp'.exc = "none"
          /\ lastOp'.op = "getitem" => lastOp'.ret = Some(expanded[lastOp'.arg[1] + 1])]_vars

C18_Witness ==
    /\ lastOp.op = "expand_to_index" /\ lastOp.arg = Some(0)
    /\ lastOp.len0 = 2 /\ lastOp.it0 /\ lastOp.exc = "none"
    /\ iterator = Some(2) /\ Len(expanded) = 2 /\ source.inf

\* C19 Exhaustion implies completeness: whenever the iterator is dropped the
\* iterable is finite and the cache holds all of it, whichever call dropped it.
C19_ExhaustionComplete ==
    iterator = None =>
        /\ Finite
        /\ expanded = source.items
        /\ expanded_len = N

C19_Witness ==
    /\ lastOp.op = "getslice" /\ lastOp.it0 /\ lastOp.len0 = 1
    /\ lastOp.arg = [start |-> None, stop |-> Some(2), step |-> None]
    /\ iterator = None /\ N = 2 /\ expanded = source.items

====
